---- MODULE Spec2Model ----
(***************************************************************************)
(* A model of the venue-directory web application in app/main.py: the      *)
(* request handlers (search, filter, venue detail, register, login,        *)
(* welcome), the SQL they build and run against the venues, users and      *)
(* reviews tables, and the password hashing of the account flow.           *)
(*                                                                         *)
(* Text values that the SQL inspects character by character (LIKE) are     *)
(* sequences of one-character strings; nicknames, which are only compared  *)
(* for equality, are strings.                                              *)
(***************************************************************************)
EXTENDS Integers, Sequences, FiniteSets, TLC

VARIABLES venues, users, reviews, unique, pc, req, resp, log, reads, registered

vars == <<venues, users, reviews, unique, pc, req, resp, log, reads, registered>>

(***************************************************************************)
(* Bounds of the model.                                                    *)
(***************************************************************************)
MaxVenues == 3
MaxUsers == 2
MaxReviews == 1
MaxSupplied == 2
MaxListLen == 2
MaxQueryLen == 2
NumWorkers == 2
NumSalts == 2

Min(a, b) == IF a < b THEN a ELSE b

(***************************************************************************)
(* SQL values.  A column holds text or NULL.                               *)
(***************************************************************************)
NULL == <<"NULL">>

IsNull(v) == v = NULL

ToLower ==
  [c \in {"A", "B", "C", "D", "E", "F", "G", "H", "I", "J", "K", "L", "M",
          "N", "O", "P", "Q", "R", "S", "T", "U", "V", "W", "X", "Y", "Z"} |->
     CASE c = "A" -> "a" [] c = "B" -> "b" [] c = "C" -> "c" [] c = "D" -> "d"
       [] c = "E" -> "e" [] c = "F" -> "f" [] c = "G" -> "g" [] c = "H" -> "h"
       [] c = "I" -> "i" [] c = "J" -> "j" [] c = "K" -> "k" [] c = "L" -> "l"
       [] c = "M" -> "m" [] c = "N" -> "n" [] c = "O" -> "o" [] c = "P" -> "p"
       [] c = "Q" -> "q" [] c = "R" -> "r" [] c = "S" -> "s" [] c = "T" -> "t"
       [] c = "U" -> "u" [] c = "V" -> "v" [] c = "W" -> "w" [] c = "X" -> "x"
       [] c = "Y" -> "y" [] c = "Z" -> "z"]

\* SQLite's LIKE folds the case of ASCII letters.
Fold(c) == IF c \in DOMAIN ToLower THEN ToLower[c] ELSE c

\* pattern[i..] LIKE text[j..]: "%" matches any run of characters, "_" any one
\* character, every other character itself up to ASCII case.  The statements
\* of main.py give no ESCAPE clause.
RECURSIVE LikeFrom(_, _, _, _)
LikeFrom(pattern, i, text, j) ==
  IF i > Len(pattern) THEN j > Len(text)
  ELSE IF pattern[i] = "%"
       THEN \E k \in j..(Len(text) + 1) : LikeFrom(pattern, i + 1, text, k)
  ELSE IF j > Len(text) THEN FALSE
  ELSE IF pattern[i] = "_" THEN LikeFrom(pattern, i + 1, text, j + 1)
  ELSE /\ Fold(pattern[i]) = Fold(text[j])
       /\ LikeFrom(pattern, i + 1, text, j + 1)

\* column LIKE ?  (NULL LIKE anything is NULL, which WHERE treats as false)
Like(value, pattern) == ~IsNull(value) /\ LikeFrom(pattern, 1, value, 1)

\* f"%{value}%"
LikePattern(value) == <<"%">> \o value \o <<"%">>

(***************************************************************************)
(* The venues table: the rows the test database is seeded with.            *)
(***************************************************************************)
VenueA ==
  [name |-> <<"V", "e", "n", "u", "e", " ", "A">>,
     address |-> <<"1", "2", "3", " ", "M", "a", "i", "n", " ", "S", "t">>,
     playground |-> <<"y", "e", "s">>,
     fenced |-> <<"n", "o">>,
     quiet_zones |-> <<"y", "e", "s">>,
     colors |-> <<"2">>,
     smells |-> <<"1">>,
     food_own |-> <<"n", "o">>,
     defined_duration |-> <<"y", "e", "s">>,
     quiet |-> <<"3">>,
     crowdedness |-> <<"2">>,
     food_variey |-> <<"3">>,
     photo_url |-> <<"/", "s", "t", "a", "t", "i", "c", "/", "i", "m", "a", "g", "e", "s", "/", "v", "e", "n", "u", "e", "_", "a", ".", "j", "p", "g">>]

VenueB ==
  [name |-> <<"V", "e", "n", "u", "e", " ", "B">>,
     address |-> <<"4", "5", "6", " ", "E", "l", "m", " ", "S", "t">>,
     playground |-> <<"n", "o">>,
     fenced |-> <<"y", "e", "s">>,
     quiet_zones |-> <<"n", "o">>,
     colors |-> <<"1">>,
     smells |-> <<"2">>,
     food_own |-> <<"y", "e", "s">>,
     defined_duration |-> <<"n", "o">>,
     quiet |-> <<"1">>,
     crowdedness |-> <<"3">>,
     food_variey |-> <<"2">>,
     photo_url |-> <<"/", "s", "t", "a", "t", "i", "c", "/", "i", "m", "a", "g", "e", "s", "/", "v", "e", "n", "u", "e", "_", "b", ".", "j", "p", "g">>]

TestVenue ==
  [name |-> <<"T", "e", "s", "t", " ", "V", "e", "n", "u", "e">>,
     address |-> <<"T", "e", "s", "t", " ", "A", "d", "d", "r", "e", "s", "s">>,
     playground |-> NULL,
     fenced |-> NULL,
     quiet_zones |-> NULL,
     colors |-> NULL,
     smells |-> NULL,
     food_own |-> NULL,
     defined_duration |-> NULL,
     quiet |-> NULL,
     crowdedness |-> NULL,
     food_variey |-> NULL,
     photo_url |-> NULL]

SeedVenues == <<VenueA, VenueB, TestVenue>>

\* The venues table after the first k seed rows were inserted (ids are
\* assigned by AUTOINCREMENT, from 1).
VenueTable(k) == [i \in 1..k |-> [id |-> i] @@ SeedVenues[i]]

VenueTables == {VenueTable(k) : k \in 0..Min(MaxVenues, Len(SeedVenues))}

(***************************************************************************)
(* Free-text search: the statement of search_venues and its evaluation.    *)
(***************************************************************************)
\* The ten columns of the WHERE clause, in the order of their placeholders.
SearchColumns ==
  <<"name", "address", "playground", "fenced", "quiet_zones", "colors",
    "smells", "food_own", "defined_duration", "photo_url">>

\* Mutant: the pattern is anchored at the start of the column.
SearchParametersAnchored(query) ==
  [i \in 1..Len(SearchColumns) |-> query \o <<"%">>]

\* parameters = [f"%{query}%"] * 10
SearchParameters(query) == [i \in 1..Len(SearchColumns) |-> LikePattern(query)]

\* name LIKE ? OR address LIKE ? OR ... OR photo_url LIKE ?
SearchMatches(row, parameters) ==
  \E i \in 1..Len(SearchColumns) : Like(row[SearchColumns[i]], parameters[i])

\* The rows search_venues fetches: with a query, the rows one of whose ten
\* columns matches; without, the whole table.
SearchRows(table, query) ==
  IF query # <<>>
  THEN SelectSeq(table, LAMBDA row : SearchMatches(row, SearchParameters(query)))
  ELSE table

(***************************************************************************)
(* Structured filter: the statement filter_venues builds, as the sequence  *)
(* of the string fragments it concatenates, and the parameter list.        *)
(***************************************************************************)
ScalarFields ==
  {"playground", "fenced", "quiet_zones", "food_own", "defined_duration",
   "photo_url"}

MultiFields == {"colors", "smells", "quiet", "crowdedness", "food_variey"}

\* name and address are accepted by the route and have no clause.
UnusedFields == {"name", "address"}

FilterFields == ScalarFields \cup MultiFields \cup UnusedFields

\* The order in which filter_venues appends its clauses.
ClauseOrder ==
  <<"playground", "fenced", "quiet_zones", "colors", "smells", "food_own",
    "defined_duration", "quiet", "crowdedness", "food_variey", "photo_url">>

SelectAll == <<"SELECT * FROM venues">>

SelectWhere == <<"SELECT * FROM venues WHERE 1=1">>

\* " AND <column> LIKE ?"
LikeClause(column) == <<" AND ", column, " LIKE ", "?">>

\* Mutant: one placeholder too few in the IN list.
JoinPlaceholdersShort(n) ==
  [i \in 1..(2 * (n - 1) - 1) |-> IF i % 2 = 1 THEN "?" ELSE ","]

\* ",".join("?" * n)
JoinPlaceholders(n) == [i \in 1..(2 * n - 1) |-> IF i % 2 = 1 THEN "?" ELSE ","]

\* " AND <column> IN (" + ",".join("?" * len(values)) + ")"
InClause(column, values) ==
  <<" AND ", column, " IN (">> \o JoinPlaceholders(Len(values)) \o <<")">>

\* One "if <field>:" block of filter_venues, applied to the statement so far.
AppendClause(acc, column, inp) ==
  IF inp[column] = <<>> THEN acc
  ELSE IF column \in ScalarFields
  THEN [query |-> acc.query \o LikeClause(column),
        parameters |-> Append(acc.parameters, LikePattern(inp[column]))]
  ELSE [query |-> acc.query \o InClause(column, inp[column]),
        parameters |-> acc.parameters \o inp[column]]

RECURSIVE AppendClauses(_, _, _)
AppendClauses(acc, i, inp) ==
  IF i > Len(ClauseOrder) THEN acc
  ELSE AppendClauses(AppendClause(acc, ClauseOrder[i], inp), i + 1, inp)

\* not any([name, address, playground, ..., photo_url])
NoFilterGiven(inp) == \A f \in FilterFields : inp[f] = <<>>

\* The statement and parameter list filter_venues hands to cursor.execute.
BuildFilter(inp) ==
  IF NoFilterGiven(inp) THEN [query |-> SelectAll, parameters |-> <<>>]
  ELSE AppendClauses([query |-> SelectWhere, parameters |-> <<>>], 1, inp)

(***************************************************************************)
(* cursor.execute(query, parameters) on the venues table.                  *)
(***************************************************************************)
NumPlaceholders(query) == Cardinality({i \in 1..Len(query) : query[i] = "?"})

\* The index of the ")" that closes the IN list opened before position i.
RECURSIVE ClosingParen(_, _)
ClosingParen(query, i) == IF query[i] = ")" THEN i ELSE ClosingParen(query, i + 1)

\* Whether row satisfies the clauses query[i..], whose placeholders are bound
\* to parameters[k..].
RECURSIVE Where(_, _, _, _, _)
Where(query, i, parameters, k, row) ==
  IF i > Len(query) THEN TRUE
  ELSE IF query[i + 2] = " LIKE "
  THEN /\ Like(row[query[i + 1]], parameters[k])
       /\ Where(query, i + 4, parameters, k + 1, row)
  ELSE LET close == ClosingParen(query, i + 3)
           n == (close - i - 2) \div 2
       IN  /\ ~IsNull(row[query[i + 1]])
           /\ \E m \in k..(k + n - 1) : parameters[m] = row[query[i + 1]]
           /\ Where(query, close + 1, parameters, k + n, row)

\* The outcome of executing a statement built by filter_venues: the rows that
\* satisfy it, or sqlite3.ProgrammingError when the number of bindings is not
\* the number of placeholders.
Execute(query, parameters, table) ==
  IF NumPlaceholders(query) # Len(parameters)
  THEN [ok |-> FALSE, rows |-> <<>>]
  ELSE [ok |-> TRUE,
        rows |-> SelectSeq(table, LAMBDA row : Where(query, 2, parameters, 1, row))]

(***************************************************************************)
(* Passwords and their hashes.  passlib's bcrypt hashes the first          *)
(* TruncateSize bytes of the password under a fresh random salt; the       *)
(* digest of the model is that prefix itself, so two digests are equal     *)
(* exactly when the hashed prefixes are.                                   *)
(***************************************************************************)
TruncateSize == 72

Truncate(password) == SubSeq(password, 1, Min(Len(password), TruncateSize))

Salts == 1..NumSalts

\* bcrypt.hash(password), with the salt the library drew
bcrypt_hash(password, salt) == [salt |-> salt, digest |-> Truncate(password)]

\* bcrypt.verify(password, hashed)
bcrypt_verify(password, hashed) == Truncate(password) = hashed.digest

TestPass == <<"t", "e", "s", "t", "p", "a", "s", "s">>

WrongPass == <<"w", "r", "o", "n", "g", "p", "a", "s", "s">>

\* A password of TruncateSize + 1 characters that ends in c.
LongPass(c) == [i \in 1..TruncateSize |-> "x"] \o <<c>>

Passwords == {TestPass, WrongPass, LongPass("a"), LongPass("b")}

Nicknames == {"testuser", "alice"}

(***************************************************************************)
(* The users table.                                                        *)
(***************************************************************************)
\* Mutant: the lookup never finds a row.
ExistingUserNever(u, nickname) == {}

\* SELECT * FROM users WHERE nickname = ? followed by fetchone(): the first
\* matching row, as a set of at most one row.
ExistingUser(u, nickname) ==
  LET found == {i \in 1..Len(u) : u[i].nickname = nickname}
  IN  IF found = {} THEN {}
      ELSE {u[CHOOSE i \in found : \A j \in found : i <= j]}

IntegrityError == "UNIQUE constraint failed: users.nickname"

StoreError == "database is locked"

FileError == "No such file or directory"

\* Mutant: the insert is skipped when the nickname is already there.
InsertUserIfAbsent(u, uniq, nickname, hashed) ==
  IF \E i \in 1..Len(u) : u[i].nickname = nickname
  THEN [ok |-> TRUE, users |-> u]
  ELSE [ok |-> TRUE,
        users |-> Append(u, [id |-> Len(u) + 1, nickname |-> nickname,
                             password |-> hashed])]

\* INSERT INTO users (nickname, password) VALUES (?, ?) and commit.  A store
\* whose schema declares nickname UNIQUE raises IntegrityError on a duplicate.
InsertUser(u, uniq, nickname, hashed) ==
  IF uniq /\ \E i \in 1..Len(u) : u[i].nickname = nickname
  THEN [ok |-> FALSE, users |-> u]
  ELSE [ok |-> TRUE,
        users |-> Append(u, [id |-> Len(u) + 1, nickname |-> nickname,
                             password |-> hashed])]

\* How many rows of the users table carry the nickname.
CountNickname(u, nickname) ==
  Cardinality({i \in 1..Len(u) : u[i].nickname = nickname})

(***************************************************************************)
(* The reviews table, written out-of-band.                                 *)
(***************************************************************************)
SeedReviews ==
  <<[review_text |-> "first", timestamp |-> 1, user_id |-> 1, venue_id |-> 1],
    [review_text |-> "second", timestamp |-> 2, user_id |-> 2, venue_id |-> 2]>>

ReviewTables ==
  {SubSeq(SeedReviews, 1, k) : k \in 0..Min(MaxReviews, Len(SeedReviews))}

\* reviews JOIN users ON user_id = users.id JOIN venues ON venue_id = venues.id
JoinedReviews(rev, u, table) ==
  {[review_text |-> rev[r].review_text, timestamp |-> rev[r].timestamp,
    nickname |-> u[i].nickname, venue_name |-> table[v].name] :
     <<r, i, v>> \in {t \in (1..Len(rev)) \X (1..Len(u)) \X (1..Len(table)) :
                        /\ rev[t[1]].user_id = u[t[2]].id
                        /\ rev[t[1]].venue_id = table[t[3]].id}}

\* ORDER BY reviews.timestamp DESC
RECURSIVE OrderByTimestampDesc(_)
OrderByTimestampDesc(rows) ==
  IF rows = {} THEN <<>>
  ELSE LET latest == CHOOSE x \in rows : \A y \in rows : y.timestamp <= x.timestamp
       IN  <<latest>> \o OrderByTimestampDesc(rows \ {latest})

(***************************************************************************)
(* Responses.  status and text are the status code and the fixed part of   *)
(* the body; data holds the values interpolated into it; caught tells      *)
(* whether the handler itself produced the response.                       *)
(***************************************************************************)
NoResponse == [status |-> 0, text |-> "", data |-> <<>>, caught |-> TRUE]

\* HTMLResponse(content=rendered_html)
Page(template, data) ==
  [status |-> 200, text |-> template, data |-> data, caught |-> TRUE]

\* HTMLResponse(content=..., status_code=...)
Html(status, text, data) ==
  [status |-> status, text |-> text, data |-> data, caught |-> TRUE]

\* RedirectResponse(url=..., status_code=303)
Redirect(url, data) ==
  [status |-> 303, text |-> url, data |-> data, caught |-> TRUE]

\* An exception that leaves the handler: the framework answers for it.
Uncaught ==
  [status |-> 500, text |-> "Internal Server Error", data |-> <<>>,
   caught |-> FALSE]

NoLog == <<>>

(***************************************************************************)
(* The handlers.  Each is a function of the store and the request to the   *)
(* store it leaves, its response, its log line and the number of SELECT    *)
(* statements it ran.  fail = 0 is a run in which nothing raises; fail = k *)
(* makes the k-th store or file operation of the handler raise, if the     *)
(* handler gets that far.                                                  *)
(***************************************************************************)
Outcome(u, response, line, selects) ==
  [users |-> u, resp |-> response, log |-> line, reads |-> selects]

\* GET /search-venues/: no try block; execute is operation 1, opening the
\* template operation 2.
search_venues(table, u, param, fail) ==
  LET query == IF param = {} THEN <<>> ELSE CHOOSE q \in param : TRUE
  IN  IF fail \in {1, 2} THEN Outcome(u, Uncaught, NoLog, fail - 1)
      ELSE Outcome(u, Page("results.html", <<SearchRows(table, query), query>>),
                   NoLog, 1)

\* GET /filter-venues/: no try block; execute is operation 1, opening the
\* template operation 2.
filter_venues(table, u, inp, fail) ==
  LET built == BuildFilter(inp)
      run == Execute(built.query, built.parameters, table)
  IN  IF fail = 1 \/ ~run.ok THEN Outcome(u, Uncaught, NoLog, 0)
      ELSE IF fail = 2 THEN Outcome(u, Uncaught, NoLog, 1)
      ELSE Outcome(u, Page("results.html", <<run.rows, inp>>), NoLog, 1)

\* GET /venue/{venue_id}: the SELECT is operation 1, opening the template
\* operation 2.
get_venue(table, u, venue_id, fail) ==
  LET venue == {i \in 1..Len(table) : table[i].id = venue_id}
  IN  IF fail = 1
      THEN Outcome(u, Html(500, "An unexpected error occurred {e}",
                           <<StoreError>>), NoLog, 0)
      ELSE IF venue = {}
      THEN Outcome(u, Html(404, "Venue not found", <<>>), NoLog, 1)
      ELSE IF fail = 2
      THEN Outcome(u, Html(500, "An unexpected error occurred {e}",
                           <<FileError>>), NoLog, 1)
      ELSE Outcome(u, Page("venue_page.html",
                           <<table[CHOOSE i \in venue : TRUE]>>), NoLog, 1)

NicknameTaken == Html(400, "nickname already taken", <<>>)

\* The except block of register_user.
RegistrationError(u, e, selects) ==
  Outcome(u, Html(500, "An error occurred: {e}", <<e>>),
          <<"Registration error: {e}", e>>, selects)

\* Mutant: a commit that raises leaves the inserted row behind.
register_insert_no_rollback(u, uniq, nickname, password, salt, fail) ==
  LET ins == InsertUser(u, uniq, nickname, bcrypt_hash(password, salt))
  IN  IF fail = 2 THEN RegistrationError(u, StoreError, 1)
      ELSE IF ~ins.ok THEN RegistrationError(u, IntegrityError, 1)
      ELSE IF fail = 3 THEN RegistrationError(ins.users, StoreError, 1)
      ELSE Outcome(ins.users, Redirect("/static/login.html", <<>>),
                   <<"User {nickname} registered successfully.", nickname>>, 1)

\* register_user after the existence check found no row: hash, INSERT
\* (operation 2), commit (operation 3).  An exception leaves the with block,
\* which rolls the transaction back.
register_insert(u, uniq, nickname, password, salt, fail) ==
  LET ins == InsertUser(u, uniq, nickname, bcrypt_hash(password, salt))
  IN  IF fail \in {2, 3} THEN RegistrationError(u, StoreError, 1)
      ELSE IF ~ins.ok THEN RegistrationError(u, IntegrityError, 1)
      ELSE Outcome(ins.users, Redirect("/static/login.html", <<>>),
                   <<"User {nickname} registered successfully.", nickname>>, 1)

\* POST /register/: the existence SELECT is operation 1.
register_user(u, uniq, nickname, password, salt, fail) ==
  IF fail = 1 THEN RegistrationError(u, StoreError, 0)
  ELSE IF ExistingUser(u, nickname) # {}
  THEN Outcome(u, NicknameTaken,
               <<"Nickname {nickname} already taken.", nickname>>, 1)
  ELSE register_insert(u, uniq, nickname, password, salt, fail)

\* The response when no user has the nickname.
InvalidNickname == Html(400, "Invalid nickname or password", <<>>)

\* Mutant: the wrong-password response names its cause.
InvalidPasswordTelling == Html(400, "Invalid password", <<>>)

\* The response when the password does not verify.
InvalidPassword == Html(400, "Invalid nickname or password", <<>>)

\* POST /login/: the SELECT is operation 1.
login_user(u, nickname, password, fail) ==
  LET user == ExistingUser(u, nickname)
  IN  IF fail = 1
      THEN Outcome(u, Html(500, "An error occurred: {e}", <<StoreError>>),
                   <<"Login error: {e}", StoreError>>, 0)
      ELSE IF user = {}
      THEN Outcome(u, InvalidNickname,
                   <<"Invalid login attempt for nickname {nickname}.", nickname>>,
                   1)
      ELSE IF ~bcrypt_verify(password, (CHOOSE x \in user : TRUE).password)
      THEN Outcome(u, InvalidPassword,
                   <<"Invalid password for nickname {nickname}.", nickname>>, 1)
      ELSE Outcome(u, Redirect("/welcome?nickname={nickname}", <<nickname>>),
                   <<"User {nickname} logged in successfully.", nickname>>, 1)

\* Mutant: only an absent parameter counts as missing.
NicknameMissingOnlyAbsent(param) == param = {}

\* not nickname, for nickname = request.query_params.get('nickname')
NicknameMissing(param) == param = {} \/ param = {""}

\* GET /welcome: the two SELECTs are operations 1 and 2, opening the template
\* operation 3.
get_welcome(table, u, rev, param, fail) ==
  IF NicknameMissing(param)
  THEN Outcome(u, Html(400, "Nickname not found in the request", <<>>), NoLog, 0)
  ELSE IF fail \in {1, 2}
  THEN Outcome(u, Html(500, "An error occurred: {e}", <<StoreError>>),
               <<"Error loading welcome page: {e}", StoreError>>, fail - 1)
  ELSE IF fail = 3
  THEN Outcome(u, Html(500, "An error occurred: {e}", <<FileError>>),
               <<"Error loading welcome page: {e}", FileError>>, 2)
  ELSE Outcome(u, Page("dashboard.html",
                       <<OrderByTimestampDesc(JoinedReviews(rev, u, table)),
                         [i \in 1..Len(table) |->
                            [id |-> table[i].id, name |-> table[i].name]],
                         CHOOSE n \in param : TRUE>>), NoLog, 2)

(***************************************************************************)
(* Requests.                                                               *)
(***************************************************************************)
Yes == <<"y", "e", "s">>

No == <<"n", "o">>

EmptyFilter == [f \in FilterFields |-> <<>>]

\* The query strings of test_filter_venues, and one that names only address.
TestFilters ==
  {EmptyFilter,
   [EmptyFilter EXCEPT !.playground = Yes, !.fenced = No],
   [EmptyFilter EXCEPT !.colors = <<<<"1">>>>, !.food_own = Yes],
   [EmptyFilter EXCEPT !.address = <<"S", "t">>]}

\* The query parameter of /search-venues/: absent, empty or given.
TestQueries == {{}, {<<>>}, {<<"t", "e", "s", "t">>}, {Yes}}

VenueIds == 1..(MaxVenues + 1)

\* The nickname parameter of /welcome: absent, empty or given.
WelcomeParams == {{}, {""}} \cup {{n} : n \in Nicknames \cup {"nobody"}}

\* The values of a scalar filter field: a whole column value, part of one,
\* and a character LIKE treats as a wildcard.
ScalarValues == {Yes, <<"o">>, <<"_">>}

\* The values of a multi-valued filter field.
MultiValues == {<<"1">>, <<"2">>}

\* getlist(field): the values of the repeated query key, in order.
ListValues == UNION {[1..n -> MultiValues] : n \in 1..MaxListLen}

\* The sets of at most MaxSupplied fields a request may supply.
SuppliedSets == {T \in SUBSET FilterFields : Cardinality(T) <= MaxSupplied}

\* The request to /filter-venues/ that supplies the fields of S: the scalar
\* ones with the values scalars gives them, the multi-valued ones with lists.
FilterInput(S, scalars, lists) ==
  [f \in FilterFields |->
     IF f \in S \cap MultiFields THEN lists[f]
     ELSE IF f \in S THEN scalars[f]
     ELSE <<>>]

\* The non-empty substrings of at most MaxQueryLen characters of a text.
Substrings(text) ==
  IF IsNull(text) THEN {}
  ELSE {SubSeq(text, i, j) : <<i, j>> \in
          {t \in (1..Len(text)) \X (1..Len(text)) :
             t[1] <= t[2] /\ t[2] - t[1] < MaxQueryLen}}

\* The query parameter of /search-venues/: absent, empty, a substring of a
\* searchable column of a seed row, a wildcard, or text no row holds.
SearchQueries ==
  {{}, {<<>>}, {<<"%">>}, {<<"Y", "E", "S">>}, {<<"z", "z">>}}
    \cup {{q} : q \in UNION {Substrings(SeedVenues[v][SearchColumns[c]]) :
                               <<v, c>> \in (1..Len(SeedVenues)) \X
                                            (1..Len(SearchColumns))}}

(***************************************************************************)
(* The state machine.  Worker w is a server process; a handler is an       *)
(* async function that never awaits, so a worker runs it to completion     *)
(* before it takes its next request.                                       *)
(***************************************************************************)
Workers == 1..NumWorkers

NoRequest == [op |-> "none"]

InitWorkers ==
  /\ pc = [w \in Workers |-> "idle"]
  /\ req = [w \in Workers |-> NoRequest]
  /\ resp = [w \in Workers |-> NoResponse]
  /\ log = [w \in Workers |-> NoLog]
  /\ reads = [w \in Workers |-> 0]
  /\ registered = {}

\* The store a fresh deployment starts from: the seeded venues, no users.
Init ==
  /\ venues = VenueTable(Min(MaxVenues, Len(SeedVenues)))
  /\ users = <<>>
  /\ reviews \in ReviewTables
  /\ unique \in BOOLEAN
  /\ InitWorkers

\* Worker w answers request with the outcome the handler computed.
Finish(w, request, out) ==
  /\ pc' = [pc EXCEPT ![w] = "done"]
  /\ req' = [req EXCEPT ![w] = request]
  /\ resp' = [resp EXCEPT ![w] = out.resp]
  /\ log' = [log EXCEPT ![w] = out.log]
  /\ reads' = [reads EXCEPT ![w] = out.reads]
  /\ users' = out.users

Search(w, param, fail) ==
  /\ pc[w] = "idle"
  /\ Finish(w, [op |-> "search", query |-> param, fail |-> fail],
            search_venues(venues, users, param, fail))
  /\ UNCHANGED <<venues, reviews, unique, registered>>

Filter(w, inp, fail) ==
  /\ pc[w] = "idle"
  /\ Finish(w, [op |-> "filter", filters |-> inp, fail |-> fail],
            filter_venues(venues, users, inp, fail))
  /\ UNCHANGED <<venues, reviews, unique, registered>>

GetVenue(w, venue_id, fail) ==
  /\ pc[w] = "idle"
  /\ Finish(w, [op |-> "venue", venue_id |-> venue_id, fail |-> fail],
            get_venue(venues, users, venue_id, fail))
  /\ UNCHANGED <<venues, reviews, unique, registered>>

\* registered collects the (nickname, password) pairs whose registration was
\* answered 303.
Register(w, nickname, password, salt, fail) ==
  /\ pc[w] = "idle"
  /\ Len(users) < MaxUsers \/ ExistingUser(users, nickname) # {}
  /\ LET out == register_user(users, unique, nickname, password, salt, fail)
     IN  /\ Finish(w, [op |-> "register", nickname |-> nickname,
                       password |-> password, fail |-> fail], out)
         /\ registered' = IF out.resp.status = 303
                          THEN registered \cup {<<nickname, password>>}
                          ELSE registered
  /\ UNCHANGED <<venues, reviews, unique>>

Login(w, nickname, password, fail) ==
  /\ pc[w] = "idle"
  /\ Finish(w, [op |-> "login", nickname |-> nickname, password |-> password,
                fail |-> fail],
            login_user(users, nickname, password, fail))
  /\ UNCHANGED <<venues, reviews, unique, registered>>

Welcome(w, param, fail) ==
  /\ pc[w] = "idle"
  /\ Finish(w, [op |-> "welcome", nickname |-> param, fail |-> fail],
            get_welcome(venues, users, reviews, param, fail))
  /\ UNCHANGED <<venues, reviews, unique, registered>>

\* The response has been sent; the worker is free for its next request.
Deliver(w) ==
  /\ pc[w] = "done"
  /\ pc' = [pc EXCEPT ![w] = "idle"]
  /\ req' = [req EXCEPT ![w] = NoRequest]
  /\ resp' = [resp EXCEPT ![w] = NoResponse]
  /\ log' = [log EXCEPT ![w] = NoLog]
  /\ reads' = [reads EXCEPT ![w] = 0]
  /\ UNCHANGED <<venues, users, reviews, unique, registered>>

(***************************************************************************)
(* Spec: one server process, a store that does not fail.                   *)
(***************************************************************************)
Next ==
  \/ \E q \in TestQueries : Search(1, q, 0)
  \/ \E inp \in TestFilters : Filter(1, inp, 0)
  \/ \E id \in VenueIds : GetVenue(1, id, 0)
  \/ \E n \in Nicknames, p \in Passwords, s \in Salts : Register(1, n, p, s, 0)
  \/ \E n \in Nicknames, p \in Passwords : Login(1, n, p, 0)
  \/ \E param \in WelcomeParams : Welcome(1, param, 0)
  \/ Deliver(1)

Spec == Init /\ [][Next]_vars

(***************************************************************************)
(* SpecFault: one server process, and any store or file operation of a     *)
(* handler may raise.                                                      *)
(***************************************************************************)
FailPoints == 0..3

NextFault ==
  \/ \E q \in TestQueries, f \in FailPoints : Search(1, q, f)
  \/ \E inp \in TestFilters, f \in FailPoints : Filter(1, inp, f)
  \/ \E id \in VenueIds, f \in FailPoints : GetVenue(1, id, f)
  \/ \E n \in Nicknames, p \in Passwords, s \in Salts, f \in FailPoints :
       Register(1, n, p, s, f)
  \/ \E n \in Nicknames, p \in Passwords, f \in FailPoints : Login(1, n, p, f)
  \/ \E param \in WelcomeParams, f \in FailPoints : Welcome(1, param, f)
  \/ Deliver(1)

SpecFault == Init /\ [][NextFault]_vars

(***************************************************************************)
(* SpecQuery: the two query routes over every seeded state of the venues   *)
(* table.                                                                  *)
(***************************************************************************)
InitQuery ==
  /\ venues \in VenueTables
  /\ users = <<>>
  /\ reviews = <<>>
  /\ unique = TRUE
  /\ InitWorkers

NextQuery ==
  \/ /\ pc[1] = "idle"
     /\ \E q \in SearchQueries : Search(1, q, 0)
  \/ /\ pc[1] = "idle"
     /\ \E S \in SuppliedSets :
          \E scalars \in [S \ MultiFields -> ScalarValues],
             lists \in [S \cap MultiFields -> ListValues] :
            Filter(1, FilterInput(S, scalars, lists), 0)
  \/ Deliver(1)

SpecQuery == InitQuery /\ [][NextQuery]_vars

(***************************************************************************)
(* SpecConc: several server processes share the database file.  Between    *)
(* the existence SELECT of register_user and its INSERT the connection     *)
(* holds no lock, so the statements of two processes interleave.           *)
(***************************************************************************)
ConcPasswords == {TestPass}

InitConc ==
  /\ venues = VenueTable(Min(MaxVenues, Len(SeedVenues)))
  /\ users = <<>>
  /\ reviews = <<>>
  /\ unique \in BOOLEAN
  /\ InitWorkers

\* The existence check of register_user: it answers 400, or goes on to insert.
RegisterCheck(w, nickname, password) ==
  /\ pc[w] = "idle"
  /\ IF ExistingUser(users, nickname) # {}
     THEN /\ Finish(w, [op |-> "register", nickname |-> nickname,
                        password |-> password, fail |-> 0],
                    register_user(users, unique, nickname, password, 1, 0))
     ELSE /\ pc' = [pc EXCEPT ![w] = "insert"]
          /\ req' = [req EXCEPT ![w] = [op |-> "register", nickname |-> nickname,
                                        password |-> password, fail |-> 0]]
          /\ reads' = [reads EXCEPT ![w] = 1]
          /\ UNCHANGED <<users, resp, log>>
  /\ UNCHANGED <<venues, reviews, unique, registered>>

\* The rest of register_user: hash, INSERT, commit, respond.
RegisterInsert(w, salt) ==
  /\ pc[w] = "insert"
  /\ Len(users) < MaxUsers
  /\ LET out == register_insert(users, unique, req[w].nickname,
                                req[w].password, salt, 0)
     IN  /\ Finish(w, req[w], out)
         /\ registered' = IF out.resp.status = 303
                          THEN registered \cup {<<req[w].nickname, req[w].password>>}
                          ELSE registered
  /\ UNCHANGED <<venues, reviews, unique>>

NextConc ==
  \/ \E w \in Workers, n \in Nicknames, p \in ConcPasswords : RegisterCheck(w, n, p)
  \/ \E w \in Workers, s \in Salts : RegisterInsert(w, s)
  \/ \E w \in Workers, n \in Nicknames, p \in ConcPasswords : Login(w, n, p, 0)
  \/ \E w \in Workers : Deliver(w)

SpecConc == InitConc /\ [][NextConc]_vars

(***************************************************************************)
(* Properties.                                                             *)
(***************************************************************************)
\* value occurs in text as a contiguous run of characters, compared exactly.
Contains(text, value) ==
  /\ ~IsNull(text)
  /\ \E i \in 1..(Len(text) - Len(value) + 1) :
       SubSeq(text, i, i + Len(value) - 1) = value

InSeq(x, q) == \E i \in 1..Len(q) : q[i] = x

Served(w, op) == pc[w] = "done" /\ req[w].op = op

\* C1: a registration of a nickname the users table does not hold is answered
\* 303 and leaves exactly one row with that nickname; a registration of a
\* nickname it holds once is answered 400, writes nothing, and the table
\* still holds exactly one row with that nickname.
C1_RegisterTwice ==
  [][\A w \in Workers :
       (pc[w] = "idle" /\ pc'[w] = "done" /\ req'[w].op = "register") =>
         LET n == req'[w].nickname
         IN  /\ CountNickname(users, n) = 0 =>
                  resp'[w].status = 303 /\ CountNickname(users', n) = 1
             /\ CountNickname(users, n) = 1 =>
                  resp'[w].status = 400 /\ users' = users]_vars

\* The second of two registrations of one nickname has been answered.
C1_Witness ==
  \E w \in Workers :
    /\ Served(w, "register")
    /\ resp[w].status = 400
    /\ CountNickname(users, req[w].nickname) = 1
    /\ \E p \in Passwords : <<req[w].nickname, p>> \in registered

\* C2: once a registration has passed its existence check, its insert does
\* not look at the table again: on a store without a uniqueness constraint
\* it adds a row and answers 303 even when another registration has put the
\* nickname there in the meantime; only a store that enforces uniqueness
\* rejects it.
C2_InsertDoesNotRecheck ==
  [][\A w \in Workers :
       (pc[w] = "insert" /\ pc'[w] = "done") =>
         LET n == req[w].nickname
         IN  IF unique /\ CountNickname(users, n) > 0
             THEN resp'[w].status = 500 /\ users' = users
             ELSE /\ resp'[w].status = 303
                  /\ CountNickname(users', n) = CountNickname(users, n) + 1]_vars

\* Two registrations of one nickname were both answered 303 and the table
\* holds two rows with it.
C2_Witness ==
  /\ ~unique
  /\ \E w1, w2 \in Workers :
       /\ w1 # w2
       /\ Served(w1, "register") /\ Served(w2, "register")
       /\ req[w1].nickname = req[w2].nickname
       /\ resp[w1].status = 303 /\ resp[w2].status = 303
       /\ CountNickname(users, req[w1].nickname) = 2

\* C3: a login that fails, whether its log line says the nickname is unknown
\* or the password is wrong, is answered with one and the same response:
\* 400, "Invalid nickname or password".
C3_LoginFailuresAlike ==
  \A w \in Workers :
    (/\ Served(w, "login")
     /\ log[w][1] \in {"Invalid login attempt for nickname {nickname}.",
                       "Invalid password for nickname {nickname}."})
      => resp[w] = [status |-> 400, text |-> "Invalid nickname or password",
                    data |-> <<>>, caught |-> TRUE]

\* A login for a registered nickname has failed on the password.
C3_Witness ==
  \E w \in Workers :
    /\ Served(w, "login")
    /\ log[w][1] = "Invalid password for nickname {nickname}."
    /\ \E p \in Passwords : <<req[w].nickname, p>> \in registered

\* C4: a login with (n, q) is answered 303 with a redirect to
\* /welcome?nickname=n exactly when a registration of (n, q) was answered
\* 303, and 400 otherwise.
C4_LoginExactlyWhenPasswordEqual ==
  \A w \in Workers :
    Served(w, "login") =>
      LET n == req[w].nickname
          q == req[w].password
      IN  IF <<n, q>> \in registered
          THEN /\ resp[w].status = 303
               /\ resp[w].text = "/welcome?nickname={nickname}"
               /\ resp[w].data = <<n>>
          ELSE resp[w].status = 400

\* The rows the claimed filter semantics select: every supplied scalar field
\* occurs in its column, every supplied multi-valued field lists its column.
FilterSelects(row, inp) ==
  /\ \A f \in ScalarFields : inp[f] # <<>> => Contains(row[f], inp[f])
  /\ \A f \in MultiFields : inp[f] # <<>> => InSeq(row[f], inp[f])

\* C5: the filter returns exactly the venues that satisfy the constraint of
\* every supplied field, and every venue when no field is supplied.
C5_FilterReturnsExactlyMatches ==
  \A w \in Workers :
    Served(w, "filter") =>
      /\ resp[w].status = 200
      /\ resp[w].data[1] =
           SelectSeq(venues, LAMBDA row : FilterSelects(row, req[w].filters))

\* C6: a search with a query returns every venue one of whose ten searchable
\* columns holds the query as a substring; a search with an empty or absent
\* query returns the whole venues table.
C6_SearchFindsSubstrings ==
  \A w \in Workers :
    Served(w, "search") =>
      /\ resp[w].status = 200
      /\ IF req[w].query \in {{}, {<<>>}}
         THEN resp[w].data[1] = venues
         ELSE \A q \in req[w].query, v \in 1..Len(venues) :
                (\E c \in {"name", "address", "playground", "fenced",
                           "quiet_zones", "colors", "smells", "food_own",
                           "defined_duration", "photo_url"} :
                   Contains(venues[v][c], q))
                  => InSeq(venues[v], resp[w].data[1])

\* A search by text from the middle of a column found that venue and left
\* another one out.
C6_Witness ==
  \E w \in Workers :
    /\ Served(w, "search")
    /\ req[w].query = {<<"l", "m">>}
    /\ Len(resp[w].data[1]) = 1
    /\ Len(venues) > 1

\* C7: every response is produced by the handler itself, and a 500 carries
\* the text of the error that was raised.
C7_HandlersCatchStoreErrors ==
  \A w \in Workers :
    pc[w] = "done" =>
      /\ resp[w].caught
      /\ resp[w].status = 500 =>
           /\ Len(resp[w].data) = 1
           /\ resp[w].data[1] \in {StoreError, FileError, IntegrityError}

\* C8: no request changes the venues or the reviews table; the users table
\* changes only in a registration answered 303, by one row appended for the
\* registered nickname; a request answered 400 or 404 changes no table.
C8_Frame ==
  [][/\ venues' = venues
     /\ reviews' = reviews
     /\ \A w \in Workers :
          (pc[w] # "done" /\ pc'[w] = "done") =>
            /\ (req'[w].op = "register" /\ resp'[w].status = 303) =>
                 /\ Len(users') = Len(users) + 1
                 /\ SubSeq(users', 1, Len(users)) = users
                 /\ users'[Len(users')].nickname = req'[w].nickname
            /\ ~(req'[w].op = "register" /\ resp'[w].status = 303) =>
                 users' = users
     /\ (\A w \in Workers : ~(pc[w] # "done" /\ pc'[w] = "done")) =>
          users' = users
    ]_vars

\* A second registration was answered 303 and added the second row.
C8_Witness ==
  \E w \in Workers :
    /\ Served(w, "register")
    /\ resp[w].status = 303
    /\ Len(users) = 2
    /\ users[2].nickname = req[w].nickname

FixedFragments ==
  {"SELECT * FROM venues", "SELECT * FROM venues WHERE 1=1", " AND ", " LIKE ",
   " IN (", "?", ",", ")"} \cup FilterFields

\* The positions of the placeholders of a statement, in order.
PlaceholderPositions(query) ==
  SelectSeq([j \in 1..Len(query) |-> j], LAMBDA j : query[j] = "?")

\* The column a placeholder belongs to: the nearest column name before it.
RECURSIVE ColumnBefore(_, _)
ColumnBefore(query, j) ==
  IF query[j] \in FilterFields THEN query[j] ELSE ColumnBefore(query, j - 1)

\* The ordinal of the placeholder at j among those of its clause.
RECURSIVE OrdinalInClause(_, _)
OrdinalInClause(query, j) ==
  IF query[j] \in FilterFields THEN 0
  ELSE (IF query[j] = "?" THEN 1 ELSE 0) + OrdinalInClause(query, j - 1)

\* The parameter at position i is the value inp supplies for the column of
\* the placeholder at position j of the statement.
BindsAt(inp, query, parameters, i, j) ==
  parameters[i] =
    IF ColumnBefore(query, j) \in ScalarFields
    THEN <<"%">> \o inp[ColumnBefore(query, j)] \o <<"%">>
    ELSE inp[ColumnBefore(query, j)][OrdinalInClause(query, j)]

\* The built statement binds, placeholder by placeholder, the values inp
\* supplies, and holds fixed fragments only.
BindsSuppliedValues(inp, built, at) ==
  /\ Len(at) = Len(built.parameters)
  /\ \A i \in 1..Len(built.query) : built.query[i] \in FixedFragments
  /\ \A i \in 1..Len(built.parameters) :
       BindsAt(inp, built.query, built.parameters, i, at[i])

\* C10: the statement filter_venues builds has as many placeholders as the
\* parameter list has elements, the i-th parameter is the value supplied for
\* the column of the i-th placeholder, and the statement consists of fixed
\* fragments only.
C10_PlaceholdersMatchParameters ==
  \A w \in Workers :
    Served(w, "filter") =>
      BindsSuppliedValues(req[w].filters, BuildFilter(req[w].filters),
                          PlaceholderPositions(BuildFilter(req[w].filters).query))

\* A filter with a two-valued field followed by a scalar field was served.
C10_Witness ==
  \E w \in Workers :
    /\ Served(w, "filter")
    /\ Len(req[w].filters.colors) = 2
    /\ req[w].filters.photo_url # <<>>
    /\ resp[w].status = 200

====
